---- MODULE Spec2Model ----
(***************************************************************************)
(* Model of my_agent/agent.py: the code-fence extractor                    *)
(* parse_and_clean_code and the prompt builder build_code_prompt.          *)
(*                                                                         *)
(* A Python str is a sequence of one-character strings.  A Python value is *)
(* a record tagged with its type, so that isinstance() and a failing       *)
(* attribute lookup can be told apart.  A character is the one-character   *)
(* string, except the backtick (see Backtick).                             *)
(***************************************************************************)
EXTENDS Integers, Sequences, FiniteSets, TLC

VARIABLES
    pc,               \* position of the sequential caller
    raw_code,         \* argument of the current / last call
    clean_code,       \* value returned by the last call
    log,              \* completed calls, oldest first: [arg, ret]
    stdout,           \* lines written by print()
    ui_description,   \* argument of build_code_prompt
    final_prompt,     \* value returned by build_code_prompt
    cpc,              \* concurrent callers: position of each
    carg,             \* concurrent callers: the argument each was given
    f_raw_code,       \* local raw_code of each frame
    f_clean_text,     \* local clean_text of each frame
    f_match,          \* local match of each frame
    f_clean_code,     \* local clean_code of each frame
    cret              \* concurrent callers: the value each got back

vars == <<pc, raw_code, clean_code, log, stdout, ui_description, final_prompt,
          cpc, carg, f_raw_code, f_clean_text, f_match, f_clean_code, cret>>

----------------------------------------------------------------------------
(* Bounds of the model *)

MaxTok == 5
MaxInt == 12
MaxDesc == 3
NumCallers == 2
MaxCalls == 2

----------------------------------------------------------------------------
(* Python values *)

PyStr(s) == [type |-> "str", val |-> s]
PyInt(n) == [type |-> "int", int |-> n]
PyNone == [type |-> "NoneType"]
AttributeError == [type |-> "AttributeError", val |-> <<>>]
KeyError == [type |-> "KeyError", val |-> <<>>]
ValueError == [type |-> "ValueError", val |-> <<>>]
NotCalled == [type |-> "unset", val |-> <<>>]

\* The character U+0060 (grave accent, the backtick).  The module's lexer does
\* not accept that character in a string, so this atom stands for it.
Backtick == "U+0060"

\* str.isspace(), which is also the whitespace class of a str pattern; ASCII part
Whitespace == {" ", "\n", "\t", "\r", "\f"}

\* the class [a-zA-Z0-9_]
WordChars ==
    {"a","b","c","d","e","f","g","h","i","j","k","l","m",
     "n","o","p","q","r","s","t","u","v","w","x","y","z",
     "A","B","C","D","E","F","G","H","I","J","K","L","M",
     "N","O","P","Q","R","S","T","U","V","W","X","Y","Z",
     "0","1","2","3","4","5","6","7","8","9","_"}

Digit(d) ==
    CASE d = 0 -> "0" [] d = 1 -> "1" [] d = 2 -> "2" [] d = 3 -> "3"
      [] d = 4 -> "4" [] d = 5 -> "5" [] d = 6 -> "6" [] d = 7 -> "7"
      [] d = 8 -> "8" [] d = 9 -> "9"

RECURSIVE Decimal(_)
Decimal(n) ==
    IF n < 10 THEN <<Digit(n)>> ELSE Append(Decimal(n \div 10), Digit(n % 10))

\* str(v) of a value that is not a str
Str(v) ==
    CASE v.type = "int" ->
           IF v.int < 0 THEN <<"-">> \o Decimal(0 - v.int) ELSE Decimal(v.int)
      [] v.type = "NoneType" -> <<"N", "o", "n", "e">>

----------------------------------------------------------------------------
(* str.strip() *)

RECURSIVE LStripFrom(_, _)
LStripFrom(s, i) ==
    IF i <= Len(s) /\ s[i] \in Whitespace THEN LStripFrom(s, i + 1) ELSE i

RECURSIVE RStripFrom(_, _, _)
RStripFrom(s, lo, j) ==
    IF j >= lo /\ s[j] \in Whitespace THEN RStripFrom(s, lo, j - 1) ELSE j

\* the variant that strips the left end only
StripLeftOnly(s) == SubSeq(s, LStripFrom(s, 1), Len(s))

\* the variant that strips one character at most from each end
StripOne(s) ==
    LET lo == IF Len(s) >= 1 /\ s[1] \in Whitespace THEN 2 ELSE 1
        hi == IF Len(s) >= lo /\ s[Len(s)] \in Whitespace THEN Len(s) - 1 ELSE Len(s)
    IN  SubSeq(s, lo, hi)

Strip(s) ==
    LET lo == LStripFrom(s, 1)
    IN  SubSeq(s, lo, RStripFrom(s, lo, Len(s)))

\* v.strip(): only a str has the method
StrStrip(v) == IF v.type = "str" THEN PyStr(Strip(v.val)) ELSE AttributeError

----------------------------------------------------------------------------
(* code_regex and its search.  The pattern is, in order: the literal      *)
(* fence of three backticks; a greedy run of tag characters; a greedy run  *)
(* of whitespace; the lazy capturing group 1 of any characters; a greedy   *)
(* run of whitespace; the literal fence.  It is modelled                   *)
(* as a backtracking matcher: a greedy item tries its longest run first    *)
(* and gives back one character at a time, the lazy group tries its        *)
(* shortest span first and takes one more character at a time.  Positions  *)
(* are 1-based indices of the next character to read.                      *)

NoMatch == <<0, 0>>

\* the literal fence (three backticks) at position i
FenceAt(t, i) ==
    i + 2 <= Len(t) /\ t[i] = Backtick /\ t[i + 1] = Backtick /\ t[i + 2] = Backtick

\* the end of the longest run of characters of class cls starting at i
RECURSIVE RunEnd(_, _, _)
RunEnd(t, i, cls) ==
    IF i <= Len(t) /\ t[i] \in cls THEN RunEnd(t, i + 1, cls) ELSE i

\* the variant that also accepts the end of the text as a closing fence
RECURSIVE MatchCloseOrEnd(_, _, _)
MatchCloseOrEnd(t, p, q) ==
    IF FenceAt(t, q) \/ q > Len(t) THEN TRUE
    ELSE IF q = p THEN FALSE
    ELSE MatchCloseOrEnd(t, p, q - 1)

\* whitespace run and fence after the group, the group ending before p: the run ends at q
RECURSIVE MatchClose(_, _, _)
MatchClose(t, p, q) ==
    IF FenceAt(t, q) THEN TRUE
    ELSE IF q = p THEN FALSE
    ELSE MatchClose(t, p, q - 1)

\* the variant with a greedy group: longest span first
RECURSIVE MatchGroupGreedyFrom(_, _, _)
MatchGroupGreedyFrom(t, w, p) ==
    IF MatchClose(t, p, RunEnd(t, p, Whitespace)) THEN <<w, p>>
    ELSE IF p = w THEN NoMatch
    ELSE MatchGroupGreedyFrom(t, w, p - 1)

MatchGroupGreedy(t, w, p) == MatchGroupGreedyFrom(t, w, Len(t) + 1)

\* the lazy group 1 starting at w and currently ending before p, then the rest
RECURSIVE MatchGroup(_, _, _)
MatchGroup(t, w, p) ==
    IF MatchClose(t, p, RunEnd(t, p, Whitespace)) THEN <<w, p>>
    ELSE IF p > Len(t) THEN NoMatch
    ELSE MatchGroup(t, w, p + 1)

\* whitespace run after the tag, the tag ending before e: the run ends at w, then the rest
RECURSIVE MatchSpace(_, _, _)
MatchSpace(t, e, w) ==
    LET m == MatchGroup(t, w, w)
    IN  IF m # NoMatch THEN m
        ELSE IF w = e THEN NoMatch
        ELSE MatchSpace(t, e, w - 1)

\* the tag run starting at i: the tag ends at e, then the rest
RECURSIVE MatchLang(_, _, _)
MatchLang(t, i, e) ==
    LET m == MatchSpace(t, e, RunEnd(t, e, Whitespace))
    IN  IF m # NoMatch THEN m
        ELSE IF e = i THEN NoMatch
        ELSE MatchLang(t, i, e - 1)

\* the variant whose pattern has no language tag
MatchAtNoTag(t, i) ==
    IF FenceAt(t, i) THEN MatchSpace(t, i + 3, RunEnd(t, i + 3, Whitespace))
    ELSE NoMatch

\* the whole pattern anchored at i; the result is the span of group 1
MatchAt(t, i) ==
    IF FenceAt(t, i) THEN MatchLang(t, i + 3, RunEnd(t, i + 3, WordChars))
    ELSE NoMatch

\* code_regex.search(t): the leftmost start that matches
RECURSIVE SearchFrom(_, _)
SearchFrom(t, i) ==
    IF i > Len(t) THEN NoMatch
    ELSE LET m == MatchAt(t, i)
         IN  IF m # NoMatch THEN m ELSE SearchFrom(t, i + 1)

search(t) == SearchFrom(t, 1)

\* match.group(1)
group1(t, m) == SubSeq(t, m[1], m[2] - 1)

----------------------------------------------------------------------------
(* parse_and_clean_code *)

\* the variant without the isinstance test
CoerceNever(raw) == raw

\* if not isinstance(raw_code, str): raw_code = str(raw_code)
Coerce(raw) == IF raw.type # "str" THEN PyStr(Str(raw)) ELSE raw

\* the variant that returns the text searched, not the group captured
BranchKeepsText(clean_text, match) == clean_text

\* the branch on match
Branch(clean_text, match) ==
    IF match # NoMatch THEN Strip(group1(clean_text, match)) ELSE clean_text

parse_and_clean_code(raw) ==
    LET clean_text == StrStrip(Coerce(raw))
    IN  IF clean_text.type # "str" THEN clean_text
        ELSE PyStr(Branch(clean_text.val, search(clean_text.val)))

----------------------------------------------------------------------------
(* Arguments the callers pass *)

Fence == <<Backtick, Backtick, Backtick>>

Tokens == {Fence, <<Backtick>>, <<" ">>, <<"\n">>, <<"a">>, <<";">>}

RECURSIVE Flatten(_)
Flatten(ts) == IF ts = <<>> THEN <<>> ELSE Head(ts) \o Flatten(Tail(ts))

\* every text made of at most n tokens
TokenStrings(n) ==
    {Flatten(ts) : ts \in UNION {[1..k -> Tokens] : k \in 0..n}}

Langs == {<<>>, <<"a">>, <<"j", "s">>, <<"a", "_", "1">>}

\* texts of the shape: fence, tag, newline, body, newline, fence
FencedForms ==
    {Fence \o lang \o <<"\n">> \o code \o <<"\n">> \o Fence :
        lang \in Langs, code \in TokenStrings(MaxTok - 2)}

ExTwoBlocks ==
    <<Backtick,Backtick,Backtick,"a","\n","X","\n",Backtick,Backtick,
      Backtick," ","t","r","a","i","l","i","n","g"," ",Backtick,Backtick,
      Backtick,"b","\n","Y","\n",Backtick,Backtick,Backtick>>

ExTwoBlocksOut ==
    <<"X">>

ExLiteral ==
    <<"H","e","r","e"," ","i","s"," ","y","o","u","r"," ","c","o","d","e",
      ":","\n",Backtick,Backtick,Backtick,"t","s","x","\n","c","o","n","s",
      "t"," ","P","a","g","e","C","o","m","p","o","n","e","n","t"," ","=",
      " ","(",")"," ","=",">"," ","{"," ","r","e","t","u","r","n"," ","n",
      "u","l","l",";"," ","}",";","\n",Backtick,Backtick,Backtick,"\n">>

ExLiteralOut ==
    <<"c","o","n","s","t"," ","P","a","g","e","C","o","m","p","o","n","e",
      "n","t"," ","="," ","(",")"," ","=",">"," ","{"," ","r","e","t","u",
      "r","n"," ","n","u","l","l",";"," ","}",";">>

ExUnclosed ==
    <<Backtick,Backtick,Backtick,"j","s","\n","c","o","n","s","t"," ","x",
      " ","="," ","1",";">>

ExBlank ==
    <<" "," "," ","\n","\t"," ">>

ExTicks ==
    <<" ",Backtick,Backtick,Backtick,"p","y","\n",Backtick,Backtick,"x"," ",
      "="," ","1",Backtick,Backtick,"\n",Backtick,Backtick,Backtick,"\n">>

ExTicksOut ==
    <<Backtick,Backtick,"x"," ","="," ","1",Backtick,Backtick>>

Examples == {ExTwoBlocks, ExLiteral, ExUnclosed, ExBlank, ExTicks}

StrArgs == {PyStr(s) : s \in TokenStrings(MaxTok) \cup FencedForms \cup Examples}

IntArgs == {PyInt(n) : n \in ((0 - MaxInt)..MaxInt) \cup {123}}

Callers == 1..NumCallers

ConcArgs ==
    {PyStr(s) : s \in {ExTwoBlocks, ExUnclosed, ExBlank, ExTicks,
                       <<" ", "a", Backtick, " ">>}}

DescChars == {"{", "}", "x", "ui_description"}

Descriptions ==
    UNION {[1..k -> DescChars \cup {Backtick}] : k \in 0..MaxDesc}

RunningLine == "Running code parser..."

----------------------------------------------------------------------------
(* The sequential caller: one call, and the result passed in again *)

IdleConc ==
    /\ cpc = [c \in Callers |-> "idle"]
    /\ carg = [c \in Callers |-> NotCalled]
    /\ f_raw_code = [c \in Callers |-> NotCalled]
    /\ f_clean_text = [c \in Callers |-> NotCalled]
    /\ f_match = [c \in Callers |-> NoMatch]
    /\ f_clean_code = [c \in Callers |-> NotCalled]
    /\ cret = [c \in Callers |-> NotCalled]

IdlePrompt ==
    /\ ui_description = <<>>
    /\ final_prompt = NotCalled

IdleSeq ==
    /\ pc = "idle"
    /\ raw_code = NotCalled
    /\ clean_code = NotCalled
    /\ log = <<>>

concVars == <<cpc, carg, f_raw_code, f_clean_text, f_match, f_clean_code, cret>>
promptVars == <<ui_description, final_prompt>>
seqVars == <<pc, raw_code, clean_code, log>>

Init ==
    /\ pc = "ready"
    /\ \/ raw_code \in StrArgs
       \/ raw_code \in IntArgs
       \/ raw_code = PyNone
    /\ clean_code = NotCalled
    /\ log = <<>>
    /\ stdout = <<>>
    /\ IdlePrompt
    /\ IdleConc

\* one whole invocation of parse_and_clean_code
Call ==
    /\ pc = "ready"
    /\ stdout' = Append(stdout, RunningLine)
    /\ clean_code' = parse_and_clean_code(raw_code)
    /\ log' = Append(log, [arg |-> raw_code, ret |-> clean_code'])
    /\ pc' = "returned"
    /\ UNCHANGED <<raw_code, promptVars, concVars>>

\* the value returned is passed to the tool again
FeedBack ==
    /\ pc = "returned"
    /\ Len(log) < MaxCalls
    /\ clean_code.type = "str"
    /\ raw_code' = clean_code
    /\ pc' = "ready"
    /\ UNCHANGED <<clean_code, log, stdout, promptVars, concVars>>

Next == Call \/ FeedBack

Spec == Init /\ [][Next]_vars

----------------------------------------------------------------------------
(* Vocabulary of the properties, stated on the text alone *)

\* three consecutive backticks start at position i of s
TripleAt(s, i) ==
    /\ i >= 1
    /\ i + 2 <= Len(s)
    /\ \A k \in 0..2 : s[i + k] = Backtick

HasTriple(s) == \E i \in 1..Len(s) : TripleAt(s, i)

\* the first position >= from where three backticks start, 0 when there is none
FirstTriple(s, from) ==
    IF \E i \in from..Len(s) : TripleAt(s, i)
    THEN CHOOSE i \in from..Len(s) :
            TripleAt(s, i) /\ \A j \in from..(i - 1) : ~TripleAt(s, j)
    ELSE 0

\* two non-overlapping triple-backtick sequences: a complete fenced block
HasBlock(s) ==
    LET o == FirstTriple(s, 1)
    IN  o # 0 /\ FirstTriple(s, o + 3) # 0

IsTrimmed(s) ==
    s = <<>> \/ (s[1] \notin Whitespace /\ s[Len(s)] \notin Whitespace)

\* s without its leading and trailing whitespace
Trim(s) ==
    IF \A i \in 1..Len(s) : s[i] \in Whitespace THEN <<>>
    ELSE LET lo == CHOOSE i \in 1..Len(s) :
                      s[i] \notin Whitespace /\ \A j \in 1..(i - 1) : s[j] \in Whitespace
             hi == CHOOSE i \in 1..Len(s) :
                      s[i] \notin Whitespace /\ \A j \in (i + 1)..Len(s) : s[j] \in Whitespace
         IN  SubSeq(s, lo, hi)

\* s without its leading tag characters
DropTag(s) ==
    IF \A i \in 1..Len(s) : s[i] \in WordChars THEN <<>>
    ELSE LET lo == CHOOSE i \in 1..Len(s) :
                      s[i] \notin WordChars /\ \A j \in 1..(i - 1) : s[j] \in WordChars
         IN  SubSeq(s, lo, Len(s))

\* the body of the first fenced block of s, which has one
FirstBody(s) ==
    LET o == FirstTriple(s, 1)
        c == FirstTriple(s, o + 3)
    IN  Trim(DropTag(SubSeq(s, o + 3, c - 1)))

\* s is: fence, tag, newline, CODE, newline, fence, with no fence inside CODE
IsFencedForm(s) ==
    /\ Len(s) >= 8
    /\ TripleAt(s, 1)
    /\ TripleAt(s, Len(s) - 2)
    /\ s[Len(s) - 3] = "\n"
    /\ \E e \in 4..(Len(s) - 4) :
          /\ s[e] = "\n"
          /\ \A j \in 4..(e - 1) : s[j] \in WordChars
          /\ ~HasTriple(SubSeq(s, e + 1, Len(s) - 4))

\* the CODE of a text of that shape
FormCode(s) ==
    LET e == CHOOSE e \in 4..(Len(s) - 4) :
                s[e] = "\n" /\ \A j \in 4..(e - 1) : s[j] \in WordChars
    IN  SubSeq(s, e + 1, Len(s) - 4)

Returned == pc = "returned"
StrCall == Returned /\ raw_code.type = "str"
Again == Returned /\ Len(log) >= 2

----------------------------------------------------------------------------
(* Properties of parse_and_clean_code *)

\* C1: an input with no three consecutive backticks is returned with its
\* leading and trailing whitespace removed, and nothing else changed.
C1_NoFenceReturnsTrim ==
    (StrCall /\ ~HasTriple(raw_code.val)) => clean_code = PyStr(Trim(raw_code.val))

C1_Witness ==
    /\ StrCall
    /\ ~HasTriple(raw_code.val)
    /\ Len(raw_code.val) >= 4
    /\ raw_code.val[1] \in Whitespace
    /\ raw_code.val[Len(raw_code.val)] \in Whitespace
    /\ \E i \in 1..Len(raw_code.val) : raw_code.val[i] = Backtick
    /\ clean_code.val # <<>>

\* C2: when the trimmed input is fence, tag, newline, CODE, newline, fence, and
\* CODE holds no fence, the result is CODE with its leading and trailing
\* whitespace removed.
C2_FencedFormReturnsCode ==
    (StrCall /\ IsFencedForm(Trim(raw_code.val)))
        => clean_code = PyStr(Trim(FormCode(Trim(raw_code.val))))

C2_Witness ==
    /\ StrCall
    /\ raw_code.val = ExTicks
    /\ clean_code = PyStr(ExTicksOut)

\* C3: when the trimmed input holds a complete fenced block, the result is the
\* body of the first block only: nothing before its opening fence, nothing after
\* its closing fence.  The two literal scenarios are instances.
C3_FirstBlockOnly ==
    /\ (StrCall /\ HasBlock(Trim(raw_code.val)))
          => clean_code = PyStr(FirstBody(Trim(raw_code.val)))
    /\ (StrCall /\ raw_code.val = ExTwoBlocks) => clean_code = PyStr(ExTwoBlocksOut)
    /\ (StrCall /\ raw_code.val = ExLiteral) => clean_code = PyStr(ExLiteralOut)

C3_Witness ==
    /\ StrCall
    /\ raw_code.val = ExTwoBlocks
    /\ clean_code = PyStr(ExTwoBlocksOut)

\* C4 as stated: every result is free of fences and of surrounding whitespace.
C4_Original ==
    Returned => (~HasTriple(clean_code.val) /\ IsTrimmed(clean_code.val))

\* C4 amended: every result is free of surrounding whitespace, and it holds a
\* fence only when the trimmed input has a fence but no complete block, the
\* result then being the trimmed input itself.
C4_Amended ==
    Returned =>
        /\ clean_code.type = "str"
        /\ IsTrimmed(clean_code.val)
        /\ HasTriple(clean_code.val) =>
              /\ raw_code.type = "str"
              /\ ~HasBlock(Trim(raw_code.val))
              /\ clean_code.val = Trim(raw_code.val)

C4_Witness ==
    /\ StrCall
    /\ HasBlock(Trim(raw_code.val))
    /\ raw_code.val[1] \in Whitespace
    /\ Len(clean_code.val) >= 2
    /\ clean_code.val[1] = Backtick
    /\ ~HasTriple(clean_code.val)

\* C5: an opening fence with no closing fence matches nothing: the whole
\* trimmed input is returned, fence and tag included.
C5_UnclosedFenceFallsBack ==
    (StrCall /\ HasTriple(raw_code.val) /\ ~HasBlock(Trim(raw_code.val)))
        => clean_code = PyStr(Trim(raw_code.val))

C5_Witness ==
    /\ StrCall
    /\ raw_code.val = ExUnclosed
    /\ clean_code = PyStr(ExUnclosed)

\* C6: no call fails; an argument that is not a str gives what its textual
\* form gives, and the integer 123 gives the text 123.
C6_NoFailureAndCoercion ==
    Returned =>
        /\ clean_code.type = "str"
        /\ raw_code.type # "str"
              => clean_code = parse_and_clean_code(PyStr(Str(raw_code)))
        /\ raw_code = PyInt(123) => clean_code = PyStr(<<"1", "2", "3">>)
        /\ raw_code = PyInt(-7) => clean_code = PyStr(<<"-", "7">>)

C6_Witness ==
    /\ Returned
    /\ raw_code = PyInt(123)
    /\ clean_code = PyStr(<<"1", "2", "3">>)

\* C7: a fence-free result given back as the input is returned unchanged.
C7_IdempotentOnClean ==
    (Again /\ log[1].ret = raw_code /\ ~HasTriple(raw_code.val))
        => clean_code = raw_code

C7_Witness ==
    /\ Again
    /\ log[1].arg.type = "str"
    /\ HasBlock(Trim(log[1].arg.val))
    /\ log[1].ret = raw_code
    /\ raw_code.val # <<>>
    /\ ~HasTriple(raw_code.val)
    /\ clean_code = raw_code

\* C10: any result given back as the input is returned unchanged.
C10_Idempotent ==
    \A k \in 1..(Len(log) - 1) :
        log[k + 1].arg = log[k].ret => log[k + 1].ret = log[k].ret

C10_Witness ==
    /\ Again
    /\ log[2].arg = log[1].ret
    /\ HasTriple(log[1].ret.val)
    /\ log[1].arg.val # log[1].ret.val
    /\ log[2].ret = log[1].ret

----------------------------------------------------------------------------
(* build_code_prompt and str.format.  The template is a sequence of chunks: *)
(* each brace and each backtick is a chunk of its own, and so is every      *)
(* other stretch of text up to the end of its line.                         *)

CODE_GENERATION_TEMPLATE ==
    << "\n",
       "You are an expert React/TypeScript developer. Your task is to generate a single-file React component (TSX) based on the description of a webpage below.\n",
       "- Use functional components.\n",
       "- Use Tailwind CSS for all styling. Do not use inline styles or CSS files.\n",
       "- Create a self-contained component. I only want the layout, do not try to implement functionality. \n",
       "- Do not use hooks like useState\n",
       "- Do not include React imports (like 'import React') or any imports.\n",
       "- Use simple SVGs if icons are mentioned, do not import any icons from any package.\n",
       "- Ensure the component is complete.\n",
       "- **CRITICAL:** Respond with *only* the raw TSX code for the component which can be directly pasted in react project and should be able to run it. \n",
       "- Do not add ",
       Backtick,
       Backtick,
       Backtick,
       "tsx, ",
       Backtick,
       Backtick,
       Backtick,
       "javascript, or any explanations, just the code.\n",
       "- Start the code with 'const PageComponent = () => ",
       "{",
       "{",
       "' and export it at the end.  # <-- THE FIX IS HERE\n",
       "- Make sure no es lint or ECMAScript issue is present in final output. If present correct it\n",
       "\n",
       "---\n",
       "WEBPAGE DESCRIPTION:\n",
       "{",
       "ui_description",
       "}",
       "\n",
       "---\n",
       "\n",
       "Your TSX Code:\n">>

\* the replacement field that opens at i ends at the next closing brace
RECURSIVE FieldEnd(_, _)
FieldEnd(tpl, j) ==
    IF j > Len(tpl) THEN 0
    ELSE IF tpl[j] = "}" THEN j
    ELSE IF tpl[j] = "{" THEN 0
    ELSE FieldEnd(tpl, j + 1)

\* tpl.format(**{key: value}) from chunk i on, out being the text produced so far
RECURSIVE FormatFrom(_, _, _, _, _)
FormatFrom(tpl, i, key, value, out) ==
    IF i > Len(tpl) THEN PyStr(out)
    ELSE IF tpl[i] = "{" THEN
        IF i < Len(tpl) /\ tpl[i + 1] = "{"
        THEN FormatFrom(tpl, i + 2, key, value, Append(out, "{"))
        ELSE LET e == FieldEnd(tpl, i + 1)
             IN  IF e = 0 THEN ValueError
                 ELSE IF SubSeq(tpl, i + 1, e - 1) = <<key>>
                 THEN FormatFrom(tpl, e + 1, key, value, out \o value)
                 ELSE KeyError
    ELSE IF tpl[i] = "}" THEN
        IF i < Len(tpl) /\ tpl[i + 1] = "}"
        THEN FormatFrom(tpl, i + 2, key, value, Append(out, "}"))
        ELSE ValueError
    ELSE FormatFrom(tpl, i + 1, key, value, Append(out, tpl[i]))

Format(tpl, key, value) == FormatFrom(tpl, 1, key, value, <<>>)

\* the call with the keyword the template does not name
build_code_prompt_description(d) ==
    Format(CODE_GENERATION_TEMPLATE, "description", d)

build_code_prompt(d) ==
    Format(CODE_GENERATION_TEMPLATE, "ui_description", d)

PromptInit ==
    /\ pc = "ready"
    /\ ui_description \in Descriptions
    /\ final_prompt = NotCalled
    /\ raw_code = NotCalled
    /\ clean_code = NotCalled
    /\ log = <<>>
    /\ stdout = <<>>
    /\ IdleConc

\* one whole invocation of build_code_prompt
BuildCodePrompt ==
    /\ pc = "ready"
    /\ final_prompt' = build_code_prompt(ui_description)
    /\ stdout' = IF final_prompt'.type = "str"
                 THEN Append(stdout, final_prompt'.val)
                 ELSE stdout
    /\ pc' = "returned"
    /\ UNCHANGED <<ui_description, raw_code, clean_code, log, concVars>>

PromptNext == BuildCodePrompt

PromptSpec == PromptInit /\ [][PromptNext]_vars

\* where the template doubles its opening brace, and where its field opens
DoubledAt ==
    CHOOSE i \in 1..Len(CODE_GENERATION_TEMPLATE) :
        /\ CODE_GENERATION_TEMPLATE[i] = "{"
        /\ CODE_GENERATION_TEMPLATE[i + 1] = "{"

FieldAt ==
    CHOOSE i \in 1..Len(CODE_GENERATION_TEMPLATE) :
        /\ CODE_GENERATION_TEMPLATE[i] = "{"
        /\ CODE_GENERATION_TEMPLATE[i + 1] = "ui_description"
        /\ CODE_GENERATION_TEMPLATE[i + 2] = "}"

\* the template before its field, one of the doubled braces removed
PromptPrefix ==
    SubSeq(CODE_GENERATION_TEMPLATE, 1, DoubledAt)
        \o SubSeq(CODE_GENERATION_TEMPLATE, DoubledAt + 2, FieldAt - 1)

PromptSuffix ==
    SubSeq(CODE_GENERATION_TEMPLATE, FieldAt + 3, Len(CODE_GENERATION_TEMPLATE))

\* C9: the prompt is the template's text before its field (the doubled brace
\* rendered once), the description unchanged, and the template's text after
\* its field, whatever braces or backticks the description holds.
C9_PromptIsPrefixDescSuffix ==
    Returned => final_prompt = PyStr(PromptPrefix \o ui_description \o PromptSuffix)

C9_Witness ==
    /\ Returned
    /\ ui_description = <<"{", "ui_description", "}">>
    /\ final_prompt = PyStr(PromptPrefix \o ui_description \o PromptSuffix)
    /\ stdout = <<final_prompt.val>>

----------------------------------------------------------------------------
(* Concurrent callers of parse_and_clean_code, one statement at a time.    *)
(* The locals of an invocation live in its own frame; stdout is shared.    *)

\* every invocation writing its locals to one shared place
SharedFrame(c) == 1

\* the frame of caller c's invocation
Frame(c) == c

ConcInit ==
    /\ cpc = [c \in Callers |-> "idle"]
    /\ carg \in [Callers -> ConcArgs \cup {PyInt(123)}]
    /\ f_raw_code = [c \in Callers |-> NotCalled]
    /\ f_clean_text = [c \in Callers |-> NotCalled]
    /\ f_match = [c \in Callers |-> NoMatch]
    /\ f_clean_code = [c \in Callers |-> NotCalled]
    /\ cret = [c \in Callers |-> NotCalled]
    /\ stdout = <<>>
    /\ IdleSeq
    /\ IdlePrompt

\* the call binds the parameter raw_code
Enter(c) ==
    /\ cpc[c] = "idle"
    /\ f_raw_code' = [f_raw_code EXCEPT ![Frame(c)] = carg[c]]
    /\ cpc' = [cpc EXCEPT ![c] = "print"]
    /\ UNCHANGED <<carg, f_clean_text, f_match, f_clean_code, cret, stdout,
                   seqVars, promptVars>>

PrintStep(c) ==
    /\ cpc[c] = "print"
    /\ stdout' = Append(stdout, RunningLine)
    /\ cpc' = [cpc EXCEPT ![c] = "coerce"]
    /\ UNCHANGED <<carg, f_raw_code, f_clean_text, f_match, f_clean_code, cret,
                   seqVars, promptVars>>

CoerceStep(c) ==
    /\ cpc[c] = "coerce"
    /\ f_raw_code' = [f_raw_code EXCEPT ![Frame(c)] = Coerce(f_raw_code[Frame(c)])]
    /\ cpc' = [cpc EXCEPT ![c] = "strip"]
    /\ UNCHANGED <<carg, f_clean_text, f_match, f_clean_code, cret, stdout,
                   seqVars, promptVars>>

StripStep(c) ==
    /\ cpc[c] = "strip"
    /\ f_clean_text' = [f_clean_text EXCEPT ![Frame(c)] = StrStrip(f_raw_code[Frame(c)])]
    /\ cpc' = [cpc EXCEPT ![c] = "search"]
    /\ UNCHANGED <<carg, f_raw_code, f_match, f_clean_code, cret, stdout,
                   seqVars, promptVars>>

SearchStep(c) ==
    /\ cpc[c] = "search"
    /\ f_match' = [f_match EXCEPT ![Frame(c)] = search(f_clean_text[Frame(c)].val)]
    /\ cpc' = [cpc EXCEPT ![c] = "branch"]
    /\ UNCHANGED <<carg, f_raw_code, f_clean_text, f_clean_code, cret, stdout,
                   seqVars, promptVars>>

BranchStep(c) ==
    /\ cpc[c] = "branch"
    /\ f_clean_code' =
          [f_clean_code EXCEPT ![Frame(c)] =
              PyStr(Branch(f_clean_text[Frame(c)].val, f_match[Frame(c)]))]
    /\ cpc' = [cpc EXCEPT ![c] = "return"]
    /\ UNCHANGED <<carg, f_raw_code, f_clean_text, f_match, cret, stdout,
                   seqVars, promptVars>>

ReturnStep(c) ==
    /\ cpc[c] = "return"
    /\ cret' = [cret EXCEPT ![c] = f_clean_code[Frame(c)]]
    /\ cpc' = [cpc EXCEPT ![c] = "done"]
    /\ UNCHANGED <<carg, f_raw_code, f_clean_text, f_match, f_clean_code, stdout,
                   seqVars, promptVars>>

ConcNext ==
    \E c \in Callers :
        \/ Enter(c)
        \/ PrintStep(c)
        \/ CoerceStep(c)
        \/ StripStep(c)
        \/ SearchStep(c)
        \/ BranchStep(c)
        \/ ReturnStep(c)

ConcSpec == ConcInit /\ [][ConcNext]_vars

\* C8: whatever the interleaving, and whatever has been printed, a caller gets
\* the value its own argument gives to a call run alone.
C8_CallersIndependent ==
    \A c \in Callers :
        cpc[c] = "done" => cret[c] = parse_and_clean_code(carg[c])

C8_Witness ==
    /\ cpc[1] = "done"
    /\ cpc[2] = "search"
    /\ carg[1] = PyStr(ExTwoBlocks)
    /\ carg[2] = PyStr(ExUnclosed)
    /\ cret[1] = PyStr(ExTwoBlocksOut)
    /\ Len(stdout) = 2

====
